---- MODULE Spec2Model ----
(***************************************************************************)
(* Batch runner of presentations-module: main() fans the submitted tasks   *)
(* out through an asyncio.Semaphore into run_presentation_task, which      *)
(* drives one SokraticSource per task and records the outcome in           *)
(* MongoStorage.  Every await of the code is one step of a job; a step on  *)
(* external I/O either returns or raises.                                  *)
(***************************************************************************)
EXTENDS Integers, Sequences, FiniteSets, TLC

\* Bounds of the model.
MaxJobs == 2
MaxConcurrency == 2
MaxFaults == 1
MaxStyles == 2
MaxCalls == 3

\* sokratic_source.py: the declared stage order of generate_presentation.
steps ==
  <<"start", "form_saved", "style_selected", "generation_started",
    "downloaded_powerpoint", "downloaded_pdf", "downloaded_text", "done">>

total_steps == Len(steps)

VARIABLES
  njobs,            \* len(db_tasks): number of submitted tasks
  MAX_CONCURRENCY,  \* capacity the semaphore was created with
  semaphore,        \* asyncio.Semaphore._value: free units
  pc,               \* position of each bounded_run task
  exc,              \* exception in flight in each task: none / error / cancel
  source,           \* SokraticSource of each task (bound, is_init, browser, page)
  apw,              \* playwright runtime of each task
  step,             \* number of snapshots the task consumed from the generator
  file_paths,       \* local file_paths of run_presentation_task
  record,           \* the task's document in the Mongo collection
  calls,            \* sink operations invoked for the task id
  faults,           \* external steps that raised: <<task, step name>>
  completed,        \* tasks in the order their bounded_run finished
  mainPc,           \* position of main(): gather / ok / err
  results,          \* what gather handed to main()
  d_pc,             \* one SokraticSource on its own: position of its caller
  d_source,         \* that SokraticSource (bound, is_init, browser, page)
  style_id,         \* the style_id argument of generate_presentation
  styles_count,     \* what page.locator(styles_selector).count() returned
  clicked,          \* index passed to .nth(...).click(), -1 before the click
  heap,             \* the list objects of the generator; heap[1] is `files`
  emitted,          \* the payloads yielded so far, `files` being a reference
  handed,           \* content of each payload's list when it was yielded
  d_error,          \* the exception generate_presentation raised
  d_file_paths,     \* file_paths of the consuming loop
  d_record,         \* the document the consumer writes
  method,           \* the SokraticSource method called last
  ncalls,           \* number of method calls made on that SokraticSource
  browsers,         \* close() calls completed on each launched Browser
  pages,            \* close() calls completed on each opened Page
  touched           \* the current call has used the page

\* The batch.
bvars ==
  <<njobs, MAX_CONCURRENCY, semaphore, pc, exc, source, apw, step,
    file_paths, record, calls, faults, completed, mainPc, results>>

\* The single driver.
dvars ==
  <<d_pc, d_source, style_id, styles_count, clicked, heap, emitted, handed,
    d_error, d_file_paths, d_record, method, ncalls, browsers, pages,
    touched>>

\* What the calls made on the single driver left behind.
lvars == <<method, ncalls, browsers, pages>>

vars == <<bvars, dvars>>

Jobs == 1 .. njobs

----------------------------------------------------------------------------
\* Pure parts of the code.

\* _save_generation_screenshot: the path of the screenshot of a stage.
Screenshot(k) == <<"screenshot", steps[k]>>

\* The downloads appended right before the screenshot of stage k.
Downloads(k) ==
  IF steps[k] = "downloaded_powerpoint" THEN << <<"download", "PowerPoint">> >>
  ELSE IF steps[k] = "downloaded_pdf" THEN << <<"download", "PDF">> >>
  ELSE IF steps[k] = "downloaded_text" THEN << <<"text", "presentation_text.txt">> >>
  ELSE <<>>

\* The generator's local list `files` when it yields its k-th snapshot.
RECURSIVE FilesAt(_)
FilesAt(k) ==
  IF k = 0 THEN <<>>
  ELSE FilesAt(k - 1) \o Downloads(k) \o <<Screenshot(k)>>

report_progress_zero_based(step_index, stage, files) ==
  [stage |-> stage,
   step |-> step_index + 1,
   total_steps |-> total_steps,
   percent |-> (step_index * 100) \div total_steps,
   files |-> files]

report_progress_round(step_index, stage, files) ==
  [stage |-> stage,
   step |-> step_index + 1,
   total_steps |-> total_steps,
   percent |-> ((step_index + 1) * 200 + total_steps) \div (2 * total_steps),
   files |-> files]

\* report_progress(step_index, stage, files): the percent is
\* int(((step_index + 1) / total_steps) * 100).  With total_steps = 8 the
\* quotient and its product with 100 are exact in binary floating point, so
\* int() cuts the fraction of the exact value.
report_progress(step_index, stage, files) ==
  [stage |-> stage,
   step |-> step_index + 1,
   total_steps |-> total_steps,
   percent |-> ((step_index + 1) * 100) \div total_steps,
   files |-> files]

\* The k-th snapshot generate_presentation yields (k = 1 .. total_steps).
Snapshot(k) == report_progress(k - 1, steps[k], FilesAt(k))

ConsumeText(fp, update) ==
  IF update.stage = "downloaded_text" THEN update.files ELSE fp

\* Loop body of run_presentation_task: file_paths after consuming `update`.
Consume(fp, update) ==
  IF update.stage = "done" THEN update.files ELSE fp

----------------------------------------------------------------------------
\* The semaphore.

CanAcquireAlways(value) == TRUE

\* asyncio.Semaphore.acquire proceeds only while a unit is free.
CanAcquire(value) == value > 0

SemReleaseOnSuccess(value, e) == IF e = "none" THEN value + 1 ELSE value

\* `async with semaphore`: __aexit__ releases whatever the body raised.
SemRelease(value, e) == value + 1

----------------------------------------------------------------------------
\* Exception flow of run_presentation_task.

CaughtExceptAuth(s) ==
  s \in {"start", "launch", "new_page", "generate", "save_result"}

\* The statements inside `try:`; `except Exception` catches what they raise.
Caught(s) ==
  s \in {"start", "launch", "new_page", "authenticate", "generate", "save_result"}

FinallyPcNoDispose(src) == IF ~src.bound THEN "exit" ELSE "stop"

\* `finally: await source.dispose_async(); await apw.stop()`: the first await
\* reached, or "exit" when `source` is still unbound (UnboundLocalError).
FinallyPc(src) ==
  IF ~src.bound THEN "exit"
  ELSE IF src.page # "None" THEN "dpage"
  ELSE IF src.browser # "None" THEN "dbrowser"
  ELSE "stop"

\* The exception in flight once the finally block is entered with e pending.
FinallyExc(src, e) == IF src.bound THEN e ELSE "error"

MayFail == Cardinality(faults) < MaxFaults

NoSource == [bound |-> FALSE, is_init |-> FALSE, browser |-> "None", page |-> "None"]

\* SokraticSource.__init__
NewSource == [bound |-> TRUE, is_init |-> FALSE, browser |-> "None", page |-> "None"]

PendingRecord == [status |-> "pending", files |-> <<>>]

\* MongoStorage.save_result: $set status = completed, files = list(files).
save_result(doc, files) == [status |-> "completed", files |-> files]

\* MongoStorage.save_error: $set status = failed, error = ...
save_error(doc) == [status |-> "failed", files |-> doc.files]

\* _check_init / _get_page: the driver is usable only when initialised.
CheckInit(src) == src.is_init /\ src.page # "None"

\* The external steps that raised so far stay within the budget.
Within(fs) == Cardinality(fs) <= MaxFaults

NoError == [msg |-> "", index |-> -1, count |-> -1]

\* No call of generate_presentation has been made on the single driver.
DriverIdle ==
  /\ d_pc = "off"
  /\ d_source = NoSource
  /\ style_id = [kind |-> "none", val |-> 0]
  /\ styles_count = -1
  /\ clicked = -1
  /\ heap = <<>>
  /\ emitted = <<>>
  /\ handed = <<>>
  /\ d_error = NoError
  /\ d_file_paths = <<>>
  /\ d_record = PendingRecord
  /\ method = "none"
  /\ ncalls = 0
  /\ browsers = <<>>
  /\ pages = <<>>
  /\ touched = FALSE

----------------------------------------------------------------------------
Init ==
  /\ DriverIdle
  /\ njobs \in 0 .. MaxJobs
  /\ MAX_CONCURRENCY \in 1 .. MaxConcurrency
  /\ semaphore = MAX_CONCURRENCY
  /\ pc = [j \in Jobs |-> "queued"]
  /\ exc = [j \in Jobs |-> "none"]
  /\ source = [j \in Jobs |-> NoSource]
  /\ apw = [j \in Jobs |-> "unbound"]
  /\ step = [j \in Jobs |-> 0]
  /\ file_paths = [j \in Jobs |-> <<>>]
  /\ record = [j \in Jobs |-> PendingRecord]
  /\ calls = [j \in Jobs |-> {}]
  /\ faults = {}
  /\ completed = <<>>
  /\ mainPc = "gather"
  /\ results = <<>>

\* A task runs without interruption from one await to the next.  Jump moves
\* task j to the await p with e in flight; p = "exit" leaves
\* run_presentation_task and `async with semaphore`, which releases the unit.
Jump(j, p, e) ==
  /\ pc' = [pc EXCEPT ![j] = IF p = "exit" THEN "done" ELSE p]
  /\ exc' = [exc EXCEPT ![j] = e]
  /\ semaphore' = IF p = "exit" THEN SemRelease(semaphore, e) ELSE semaphore
  /\ completed' = IF p = "exit" THEN Append(completed, j) ELSE completed

\* Statement s of the try block raised while the driver is src:
\* `except Exception as e: db.save_error(task_id, str(e))`, then the finally.
Except(j, s, src) ==
  IF Caught(s)
  THEN /\ calls' = [calls EXCEPT ![j] = @ \cup {"save_error"}]
       /\ \/ /\ faults' = faults \cup {<<j, s>>}
             /\ record' = [record EXCEPT ![j] = save_error(@)]
             /\ Jump(j, FinallyPc(src), FinallyExc(src, "none"))
          \/ /\ faults' = faults \cup {<<j, s>>, <<j, "save_error">>}
             /\ Within(faults')
             /\ record' = record
             /\ Jump(j, FinallyPc(src), FinallyExc(src, "error"))
  ELSE /\ faults' = faults \cup {<<j, s>>}
       /\ UNCHANGED <<calls, record>>
       /\ Jump(j, FinallyPc(src), FinallyExc(src, "error"))

\* bounded_run enters `async with semaphore`; run_presentation_task builds
\* db = MongoStorage(), sets file_paths = [] and awaits the runtime start.
Admit(j) ==
  /\ pc[j] = "queued"
  /\ CanAcquire(semaphore)
  /\ \/ /\ semaphore' = semaphore - 1
        /\ pc' = [pc EXCEPT ![j] = "start"]
        /\ file_paths' = [file_paths EXCEPT ![j] = <<>>]
        /\ UNCHANGED <<exc, faults, completed>>
     \/ /\ MayFail
        /\ faults' = faults \cup {<<j, "db">>}
        /\ semaphore' = SemRelease(semaphore - 1, "error")
        /\ pc' = [pc EXCEPT ![j] = "done"]
        /\ exc' = [exc EXCEPT ![j] = "error"]
        /\ completed' = Append(completed, j)
        /\ UNCHANGED file_paths
  /\ UNCHANGED <<dvars, njobs, MAX_CONCURRENCY, source, apw, step, record, calls,
                 mainPc, results>>

\* apw = await async_playwright().start(); source = SokraticSource(apw, ...)
StartRuntime(j) ==
  /\ pc[j] = "start"
  /\ \/ /\ apw' = [apw EXCEPT ![j] = "started"]
        /\ source' = [source EXCEPT ![j] = NewSource]
        /\ pc' = [pc EXCEPT ![j] = "launch"]
        /\ UNCHANGED <<exc, semaphore, completed, faults, calls, record>>
     \/ /\ MayFail
        /\ Except(j, "start", source[j])
        /\ UNCHANGED <<apw, source>>
  /\ UNCHANGED <<dvars, njobs, MAX_CONCURRENCY, step, file_paths, mainPc, results>>

\* init_async: self.browser = await self.chrome.launch(); self.is_init = True
Launch(j) ==
  /\ pc[j] = "launch"
  /\ ~source[j].is_init
  /\ \/ /\ source' = [source EXCEPT ![j].browser = "open", ![j].is_init = TRUE]
        /\ pc' = [pc EXCEPT ![j] = "newpage"]
        /\ UNCHANGED <<exc, semaphore, completed, faults, calls, record>>
     \/ /\ MayFail
        /\ Except(j, "launch", source[j])
        /\ UNCHANGED source
  /\ UNCHANGED <<dvars, njobs, MAX_CONCURRENCY, apw, step, file_paths, mainPc, results>>

\* init_async: self.page = await self.browser.new_page(...)
NewPage(j) ==
  /\ pc[j] = "newpage"
  /\ \/ /\ source' = [source EXCEPT ![j].page = "open"]
        /\ pc' = [pc EXCEPT ![j] = "auth"]
        /\ UNCHANGED <<exc, semaphore, completed, faults, calls, record>>
     \/ /\ MayFail
        /\ Except(j, "new_page", source[j])
        /\ UNCHANGED source
  /\ UNCHANGED <<dvars, njobs, MAX_CONCURRENCY, apw, step, file_paths, mainPc, results>>

\* await source.authenticate(login, password); then file_paths = []
Authenticate(j) ==
  /\ pc[j] = "auth"
  /\ \/ /\ CheckInit(source[j])
        /\ pc' = [pc EXCEPT ![j] = "gen"]
        /\ file_paths' = [file_paths EXCEPT ![j] = <<>>]
        /\ UNCHANGED <<exc, semaphore, completed, faults, calls, record>>
     \/ /\ MayFail
        /\ Except(j, "authenticate", source[j])
        /\ UNCHANGED file_paths
  /\ UNCHANGED <<dvars, njobs, MAX_CONCURRENCY, source, apw, step, mainPc, results>>

\* The loop is over: db.save_result(task_id, file_paths), then the finally.
\* fp is file_paths as the loop left it.
AfterLoop(j, fp) ==
  /\ \/ /\ calls' = [calls EXCEPT ![j] = @ \cup {"save_result"}]
        /\ record' = [record EXCEPT ![j] = save_result(@, fp)]
        /\ Jump(j, FinallyPc(source[j]), FinallyExc(source[j], "none"))
        /\ UNCHANGED faults
     \/ /\ MayFail
        /\ \E e \in {"none", "error"} :
             /\ calls' = [calls EXCEPT ![j] = @ \cup {"save_result", "save_error"}]
             /\ faults' = faults \cup {<<j, "save_result">>}
                            \cup (IF e = "error" THEN {<<j, "save_error">>} ELSE {})
             /\ Within(faults')
             /\ record' = IF e = "none" THEN [record EXCEPT ![j] = save_error(@)]
                          ELSE record
             /\ Jump(j, FinallyPc(source[j]), FinallyExc(source[j], e))

\* One round of `async for update in source.generate_presentation(...)`:
\* the generator runs to its next yield and the loop body consumes the
\* snapshot; after its last yield the generator is exhausted.
GenNext(j) ==
  /\ pc[j] = "gen"
  /\ step[j] < total_steps
  /\ \/ /\ CheckInit(source[j])
        /\ step' = [step EXCEPT ![j] = @ + 1]
        /\ file_paths' =
             [file_paths EXCEPT ![j] = Consume(@, Snapshot(step[j] + 1))]
        /\ IF step[j] + 1 = total_steps
           THEN AfterLoop(j, file_paths'[j])
           ELSE UNCHANGED <<pc, exc, semaphore, completed, faults, calls, record>>
     \/ /\ MayFail
        /\ Except(j, "generate", source[j])
        /\ UNCHANGED <<step, file_paths>>
  /\ UNCHANGED <<dvars, njobs, MAX_CONCURRENCY, source, apw, mainPc, results>>

\* PresentationSource.generate_presentation is abstract: another driver may
\* end its snapshot sequence before the last declared stage.
GenStop(j) ==
  /\ pc[j] = "gen"
  /\ step[j] < total_steps
  /\ AfterLoop(j, file_paths[j])
  /\ UNCHANGED <<dvars, njobs, MAX_CONCURRENCY, source, apw, step, file_paths,
                 mainPc, results>>

\* dispose_async: if self.page: await self.page.close(); self.page = None
ClosePage(j) ==
  /\ pc[j] = "dpage"
  /\ \/ /\ source' = [source EXCEPT ![j].page = "None"]
        /\ Jump(j, IF source[j].browser # "None" THEN "dbrowser" ELSE "stop", exc[j])
        /\ UNCHANGED faults
     \/ /\ MayFail
        /\ faults' = faults \cup {<<j, "page_close">>}
        /\ Jump(j, "exit", "error")
        /\ UNCHANGED source
  /\ UNCHANGED <<dvars, njobs, MAX_CONCURRENCY, apw, step, file_paths, record, calls,
                 mainPc, results>>

\* dispose_async: if self.browser: await self.browser.close(); is_init = False
CloseBrowser(j) ==
  /\ pc[j] = "dbrowser"
  /\ \/ /\ source' = [source EXCEPT ![j].browser = "closed", ![j].is_init = FALSE]
        /\ Jump(j, "stop", exc[j])
        /\ UNCHANGED faults
     \/ /\ MayFail
        /\ faults' = faults \cup {<<j, "browser_close">>}
        /\ Jump(j, "exit", "error")
        /\ UNCHANGED source
  /\ UNCHANGED <<dvars, njobs, MAX_CONCURRENCY, apw, step, file_paths, record, calls,
                 mainPc, results>>

\* finally: await apw.stop(); then `return (task, file_paths)` or re-raise.
StopRuntime(j) ==
  /\ pc[j] = "stop"
  /\ \/ /\ apw' = [apw EXCEPT ![j] = "stopped"]
        /\ Jump(j, "exit", exc[j])
        /\ UNCHANGED faults
     \/ /\ MayFail
        /\ faults' = faults \cup {<<j, "stop">>}
        /\ Jump(j, "exit", "error")
        /\ UNCHANGED apw
  /\ UNCHANGED <<dvars, njobs, MAX_CONCURRENCY, source, step, file_paths, record, calls,
                 mainPc, results>>

----------------------------------------------------------------------------
\* main() and the event loop.

Returned(j) == pc[j] = "done" /\ exc[j] = "none"
Escaped(j) == pc[j] = "done" /\ exc[j] = "error"
Cancelled(j) == pc[j] = "done" /\ exc[j] = "cancel"

\* `return (task, file_paths)` of every task.
Returns == [j \in Jobs |-> [task |-> j, file_names |-> file_paths[j]]]

as_completed(order, rets) == [i \in 1 .. Len(order) |-> rets[order[i]]]

\* asyncio.gather: the results are listed in the order of the awaitables.
gather(order, rets) == [i \in 1 .. Len(order) |-> rets[i]]

\* results = await asyncio.gather(...); for task, file_names in results: log
MainGather ==
  /\ mainPc = "gather"
  /\ \A j \in Jobs : Returned(j)
  /\ results' = gather(completed, Returns)
  /\ mainPc' = "ok"
  /\ UNCHANGED <<dvars, njobs, MAX_CONCURRENCY, semaphore, pc, exc, source, apw, step,
                 file_paths, record, calls, faults, completed>>

TryAwaits == {"start", "launch", "newpage", "auth", "gen"}
FinallyAwaits == {"dpage", "dbrowser", "stop"}

\* task.cancel(): CancelledError is raised at the await the task is parked on;
\* `except Exception` does not catch it, the finally block runs.
CancelPc(p, src) ==
  IF p = "queued" THEN "done"
  ELSE IF p \in TryAwaits
       THEN (IF FinallyPc(src) = "exit" THEN "done" ELSE FinallyPc(src))
  ELSE IF p \in FinallyAwaits THEN "done"
  ELSE p

CancelExc(p, src, e) ==
  IF p = "queued" THEN "cancel"
  ELSE IF p \in TryAwaits THEN FinallyExc(src, "cancel")
  ELSE IF p \in FinallyAwaits THEN "cancel"
  ELSE e

\* The tasks that a cancellation takes out of `async with semaphore`.
Unwound == {j \in Jobs : pc[j] \notin {"queued", "done"}
                          /\ CancelPc(pc[j], source[j]) = "done"}

RECURSIVE SeqOfSet(_)
SeqOfSet(S) ==
  IF S = {} THEN <<>>
  ELSE LET x == CHOOSE y \in S : \A z \in S : y <= z
       IN <<x>> \o SeqOfSet(S \ {x})

\* gather re-raises the first exception of a task; main logs it and returns;
\* asyncio.run then cancels every task that is still pending.
MainCatch ==
  /\ mainPc = "gather"
  /\ \E j \in Jobs : pc[j] = "done" /\ exc[j] # "none"
  /\ mainPc' = "err"
  /\ pc' = [j \in Jobs |-> CancelPc(pc[j], source[j])]
  /\ exc' = [j \in Jobs |-> CancelExc(pc[j], source[j], exc[j])]
  /\ semaphore' = semaphore + Cardinality(Unwound)
  /\ completed' = completed \o SeqOfSet({j \in Jobs : pc[j] # "done" /\ pc'[j] = "done"})
  /\ UNCHANGED <<dvars, njobs, MAX_CONCURRENCY, source, apw, step,
                 file_paths, record, calls, faults, results>>

Next ==
  \/ \E j \in Jobs : Admit(j)
  \/ \E j \in Jobs : StartRuntime(j)
  \/ \E j \in Jobs : Launch(j)
  \/ \E j \in Jobs : NewPage(j)
  \/ \E j \in Jobs : Authenticate(j)
  \/ \E j \in Jobs : GenNext(j)
  \/ \E j \in Jobs : ClosePage(j)
  \/ \E j \in Jobs : CloseBrowser(j)
  \/ \E j \in Jobs : StopRuntime(j)
  \/ MainGather
  \/ MainCatch

Spec == Init /\ [][Next]_vars

\* The same batch run against any driver the abstract interface allows.
NextIface == Next \/ \E j \in Jobs : GenStop(j)

SpecIface == Init /\ [][NextIface]_vars

----------------------------------------------------------------------------
\* Properties.

\* The awaits between the start of the runtime/driver and the end of disposal.
DriverSection == TryAwaits \cup FinallyAwaits

HoldsDriver(j) == pc[j] \in DriverSection

FaultsOf(j) == {f[2] : f \in {g \in faults : g[1] = j}}

\* C1: at most MAX_CONCURRENCY tasks are between the start of driver creation
\* and the completion of its disposal, and a task still waiting on the
\* semaphore has no runtime, no driver, no browser and no page.
C1_AtMostNDrivers ==
  /\ Cardinality({j \in Jobs : HoldsDriver(j)}) <= MAX_CONCURRENCY
  /\ \A j \in Jobs :
       pc[j] = "queued" => source[j] = NoSource /\ apw[j] = "unbound"

\* C1 witness: the limit is reached with a browser open while a task waits.
C1_Witness ==
  /\ Cardinality({j \in Jobs : HoldsDriver(j)}) = MAX_CONCURRENCY
  /\ \E j \in Jobs : pc[j] = "queued"
  /\ \E j \in Jobs : HoldsDriver(j) /\ source[j].browser = "open"

\* C2: when the only steps that raise in a batch are authenticate or
\* generate steps, no error reaches main, and every task none of whose own
\* steps raised ends with a Success record and returns.
C2_FailureIsolated ==
  (\A f \in faults : f[2] \in {"authenticate", "generate"}) =>
    /\ mainPc # "err"
    /\ \A b \in Jobs :
         (pc[b] = "done" /\ FaultsOf(b) = {}) =>
           (Returned(b) /\ record[b].status = "completed"
              /\ calls[b] = {"save_result"})

\* C2 witness: one task failed in authenticate or generate, another succeeded.
C2_Witness ==
  \E a \in Jobs : \E b \in Jobs :
    /\ a # b
    /\ FaultsOf(a) # {} /\ FaultsOf(a) \subseteq {"authenticate", "generate"}
    /\ pc[a] = "done" /\ record[a].status = "failed"
    /\ pc[b] = "done" /\ record[b].status = "completed"

\* C3: an error raised after the unit was acquired by the runtime start,
\* the driver initialisation, authentication, generation or the clean-up
\* never propagates out of run_presentation_task to the gather in main.
C3_NoErrorEscapes ==
  \A j \in Jobs :
    (FaultsOf(j) \subseteq {"start", "launch", "new_page", "authenticate",
                             "generate", "page_close", "browser_close", "stop"})
      => ~Escaped(j)

\* C4: a task is recorded as Success if and only if the runner consumed the
\* snapshot of the terminal stage 'done', whatever the driver's sequence.
C4_SuccessIffDone ==
  \A j \in Jobs :
    /\ record[j].status = "completed" => step[j] = total_steps
    /\ (pc[j] = "done" /\ step[j] = total_steps) => record[j].status = "completed"

\* C5: for every admitted task exactly one of save_result and save_error is
\* invoked, never both and never neither, also when a driver step or a sink
\* write raises (stated for the batches in which no task was cancelled).
C5_ExactlyOneSinkCall ==
  \A j \in Jobs :
    (/\ pc[j] = "done"
     /\ mainPc # "err"
     /\ FaultsOf(j) \subseteq {"start", "launch", "new_page", "authenticate",
                                "generate", "save_result", "save_error"})
      => Cardinality(calls[j]) = 1

\* C6: whenever main is through with the batch it holds one result entry per
\* submitted task (stated for the batches in which MongoStorage() itself
\* could be constructed for every task).
C6_BatchReportsEveryJob ==
  (\A f \in faults : f[2] # "db") =>
    (mainPc # "gather" => (mainPc = "ok" /\ Len(results) = njobs))

\* C7: the i-th result handed to main belongs to the i-th submitted task,
\* whatever the order in which the tasks finished.
C7_ResultsInSubmissionOrder ==
  mainPc = "ok" =>
    /\ Len(results) = njobs
    /\ \A i \in Jobs :
         results[i].task = i /\ results[i].file_names = file_paths[i]

\* C7 witness: results were gathered although the first task to finish was
\* not the first one submitted.
C7_Witness ==
  /\ mainPc = "ok"
  /\ njobs = MaxJobs
  /\ completed[1] # 1

\* C8: on every exit path the driver is disposed before the unit is
\* released: a task that has left the semaphore has no open browser or page.
C8_DisposedBeforeRelease ==
  \A j \in Jobs :
    pc[j] = "done" => (source[j].browser # "open" /\ source[j].page # "open")

\* C9: the units held are exactly those of the tasks inside the guarded
\* section, the count stays within 0 .. MAX_CONCURRENCY, and once every task
\* has finished all units are free again.
C9_UnitsBalanced ==
  /\ semaphore = MAX_CONCURRENCY
                   - Cardinality({j \in Jobs : pc[j] \notin {"queued", "done"}})
  /\ semaphore \in 0 .. MAX_CONCURRENCY
  /\ (\A j \in Jobs : pc[j] = "done") => semaphore = MAX_CONCURRENCY

\* C9 witness: every task finished, one of them by an escaping exception,
\* and all units are free.
C9_Witness ==
  /\ njobs = MaxJobs
  /\ \A j \in Jobs : pc[j] = "done"
  /\ \E j \in Jobs : Escaped(j) /\ FaultsOf(j) # {"db"}
  /\ semaphore = MAX_CONCURRENCY

\* C10: whenever save_error was invoked for a task, the file list that
\* run_presentation_task returns for it is empty.
C10_FailureHasNoFiles ==
  \A j \in Jobs :
    (Returned(j) /\ "save_error" \in calls[j]) => file_paths[j] = <<>>

\* C11: when save_result raises after the 'done' snapshot was consumed, the
\* task keeps its Success outcome: it is not re-recorded as failed and
\* save_error is not invoked for it.
C11_SinkFailureKeepsOutcome ==
  \A j \in Jobs :
    (step[j] = total_steps /\ "save_result" \in FaultsOf(j)) =>
      (record[j].status # "failed" /\ "save_error" \notin calls[j])

----------------------------------------------------------------------------
\* One SokraticSource on its own: init_async, then generate_presentation
\* consumed by the loop of run_presentation_task, with the style selection
\* and the list objects of the generator spelled out.

yields_swapped ==
  << <<0, "start">>, <<1, "form_saved">>, <<2, "style_selected">>,
     <<3, "generation_started">>, <<4, "downloaded_pdf">>,
     <<5, "downloaded_powerpoint">>, <<6, "downloaded_text">>, <<7, "done">> >>

\* The arguments of the report_progress calls, in the order of the yields.
yields ==
  << <<0, "start">>, <<1, "form_saved">>, <<2, "style_selected">>,
     <<3, "generation_started">>, <<4, "downloaded_powerpoint">>,
     <<5, "downloaded_pdf">>, <<6, "downloaded_text">>, <<7, "done">> >>

\* The style_id arguments tried: omitted, not numeric, or a numeric index.
StyleIds ==
  {[kind |-> "none", val |-> 0], [kind |-> "text", val |-> 0]}
    \cup {[kind |-> "num", val |-> i] : i \in -1 .. MaxStyles + 1}

StyleInRangeInclusive(i, c) == ~(i < 0 \/ i > c)

\* `if final_style_id < 0 or final_style_id >= styles_count: raise`
StyleInRange(i, c) == ~(i < 0 \/ i >= c)

randint_past_end(a, b) == a .. b + 1

\* random.randint(a, b): any integer from a to b, both ends included.
randint(a, b) == a .. b

AliasList(h, r) == [heap |-> h, ref |-> r]

\* list(files): a new list object with the same elements.
CopyList(h, r) == [heap |-> Append(h, h[r]), ref |-> Len(h) + 1]

\* files.append(x) for every x of xs, on the generator's list heap[1].
AppendAll(h, xs) == [h EXCEPT ![1] = @ \o xs]

InitDriver ==
  /\ njobs = 0
  /\ MAX_CONCURRENCY = 1
  /\ semaphore = 1
  /\ pc = <<>>
  /\ exc = <<>>
  /\ source = <<>>
  /\ apw = <<>>
  /\ step = <<>>
  /\ file_paths = <<>>
  /\ record = <<>>
  /\ calls = <<>>
  /\ faults = {}
  /\ completed = <<>>
  /\ mainPc = "gather"
  /\ results = <<>>
  /\ d_pc = "launch"
  /\ d_source = NewSource
  /\ style_id \in StyleIds
  /\ styles_count = -1
  /\ clicked = -1
  /\ heap = <<>>
  /\ emitted = <<>>
  /\ handed = <<>>
  /\ d_error = NoError
  /\ d_file_paths = <<>>
  /\ d_record = PendingRecord
  /\ method = "init_async"
  /\ ncalls = 1
  /\ browsers = <<>>
  /\ pages = <<>>
  /\ touched = FALSE

\* An exception leaves the driver call: `except Exception as e:
\* db.save_error(task_id, str(e))`.
DRaise(e) ==
  /\ d_pc' = "raised"
  /\ d_error' = e
  /\ d_record' = save_error(d_record)

External == [msg |-> "external step failed", index |-> -1, count |-> -1]

\* init_async: self.browser = await self.chrome.launch(); self.is_init = True
DLaunch ==
  /\ d_pc = "launch"
  /\ ~d_source.is_init
  /\ \/ /\ d_source' = [d_source EXCEPT !.browser = "open", !.is_init = TRUE]
        /\ d_pc' = "newpage"
        /\ UNCHANGED <<d_error, d_record>>
     \/ /\ DRaise(External)
        /\ UNCHANGED d_source
  /\ UNCHANGED <<bvars, style_id, styles_count, clicked, heap, emitted, handed,
                 d_file_paths, lvars, touched>>

\* init_async: self.page = await self.browser.new_page(...); the caller then
\* sets file_paths = [] and calls generate_presentation, whose body starts
\* with the first request of the loop.
DNewPage ==
  /\ d_pc = "newpage"
  /\ \/ /\ d_source' = [d_source EXCEPT !.page = "open"]
        /\ d_pc' = "gen"
        /\ UNCHANGED <<d_error, d_record>>
     \/ /\ DRaise(External)
        /\ UNCHANGED d_source
  /\ UNCHANGED <<bvars, style_id, styles_count, clicked, heap, emitted, handed,
                 d_file_paths, lvars, touched>>

\* The generator appends xs to `files`, yields its next payload with a copy
\* of the list, and the loop body consumes it.
DYield(xs) ==
  LET k == Len(emitted) + 1
      h0 == IF k = 1 THEN <<(<<>>)>> ELSE heap
      c == CopyList(AppendAll(h0, xs), 1)
      payload == report_progress(yields[k][1], yields[k][2], c.ref)
  IN /\ heap' = c.heap
     /\ emitted' = Append(emitted, payload)
     /\ handed' = Append(handed, c.heap[c.ref])
     /\ d_file_paths' =
          Consume(d_file_paths, [stage |-> payload.stage, files |-> c.heap[c.ref]])

\* A part of generate_presentation between two yields, other than the style
\* selection: page interaction, downloads, the screenshot, the yield.
DGenSegment ==
  /\ d_pc = "gen"
  /\ Len(emitted) < Len(yields)
  /\ yields[Len(emitted) + 1][2] # "style_selected"
  /\ \/ /\ CheckInit(d_source)
        /\ DYield(Downloads(Len(emitted) + 1) \o <<Screenshot(Len(emitted) + 1)>>)
        /\ UNCHANGED <<d_pc, d_error, d_record>>
     \/ /\ DRaise(External)
        /\ UNCHANGED <<heap, emitted, handed, d_file_paths>>
  /\ touched' = TRUE
  /\ UNCHANGED <<bvars, d_source, style_id, styles_count, clicked, lvars>>

\* The part that opens the design gallery, counts the styles, picks
\* final_style_id, clicks it and yields 'style_selected'.
DGenStyle ==
  /\ d_pc = "gen"
  /\ Len(emitted) < Len(yields)
  /\ yields[Len(emitted) + 1][2] = "style_selected"
  /\ \/ /\ DRaise(External)
        /\ UNCHANGED <<styles_count, clicked, heap, emitted, handed, d_file_paths>>
     \/ \E c \in 0 .. MaxStyles :
          /\ styles_count' = c
          /\ \/ /\ c <= 0
                /\ DRaise([msg |-> "No styles found in design gallery",
                           index |-> -1, count |-> -1])
                /\ UNCHANGED <<clicked, heap, emitted, handed, d_file_paths>>
             \/ /\ c > 0
                /\ style_id.kind = "text"
                /\ DRaise([msg |-> "style_id must be a numeric index",
                           index |-> -1, count |-> -1])
                /\ UNCHANGED <<clicked, heap, emitted, handed, d_file_paths>>
             \/ /\ c > 0
                /\ style_id.kind = "num"
                /\ ~StyleInRange(style_id.val, c)
                /\ DRaise([msg |-> "style_id index out of range",
                           index |-> style_id.val, count |-> c])
                /\ UNCHANGED <<clicked, heap, emitted, handed, d_file_paths>>
             \/ /\ c > 0
                /\ \E i \in -1 .. MaxStyles + 1 :
                     /\ \/ style_id.kind = "none" /\ i \in randint(0, c - 1)
                        \/ /\ style_id.kind = "num"
                           /\ i = style_id.val
                           /\ StyleInRange(i, c)
                     /\ clicked' = i
                /\ DYield(<<Screenshot(Len(emitted) + 1)>>)
                /\ UNCHANGED <<d_pc, d_error, d_record>>
  /\ touched' = TRUE
  /\ UNCHANGED <<bvars, d_source, style_id, lvars>>

\* The generator is exhausted after its last yield: the loop ends and the
\* caller records db.save_result(task_id, file_paths).
DGenExhaust ==
  /\ d_pc = "gen"
  /\ Len(emitted) = Len(yields)
  /\ d_pc' = "finished"
  /\ d_record' = save_result(d_record, d_file_paths)
  /\ UNCHANGED <<bvars, d_source, style_id, styles_count, clicked, heap, emitted,
                 handed, d_error, d_file_paths, lvars, touched>>

NextDriver ==
  \/ DLaunch
  \/ DNewPage
  \/ DGenSegment
  \/ DGenStyle
  \/ DGenExhaust

SpecDriver == InitDriver /\ [][NextDriver]_vars

----------------------------------------------------------------------------
\* Properties of the single driver.

IsPrefix(a, b) == Len(a) <= Len(b) /\ SubSeq(b, 1, Len(a)) = a

\* C12: the percent values of the snapshots of one run never decrease and
\* never exceed 100, and a run that yields all its snapshots ends at 100.
C12_PercentMonotone ==
  /\ \A k \in 1 .. Len(emitted) : emitted[k].percent \in 0 .. 100
  /\ \A k \in 1 .. Len(emitted) - 1 : emitted[k].percent <= emitted[k + 1].percent
  /\ d_pc = "finished" =>
       (Len(emitted) = total_steps /\ emitted[Len(emitted)].percent = 100)

\* C12 witness: a run that went through all its stages.
C12_Witness ==
  /\ d_pc = "finished"
  /\ Len(emitted) = total_steps
  /\ emitted[1].percent < emitted[total_steps].percent

\* C13: the list of each snapshot is a prefix of the list of the next one,
\* and a list already handed to the consumer still has the content it had
\* when it was yielded.
C13_FilesAppendOnly ==
  /\ \A k \in 1 .. Len(emitted) : heap[emitted[k].files] = handed[k]
  /\ \A k \in 1 .. Len(emitted) - 1 :
       IsPrefix(heap[emitted[k].files], heap[emitted[k + 1].files])

\* C13 witness: a later snapshot holds more artifacts than an earlier one
\* that was handed out before the appends.
C13_Witness ==
  /\ Len(emitted) >= 5
  /\ Len(handed[1]) = 1
  /\ Len(heap[emitted[5].files]) = 6
  /\ Len(heap[1]) = 6

\* C14: the k-th snapshot carries the k-th declared stage and step index k,
\* 'done' is the last snapshot, and a run that raised has emitted a strict
\* prefix of the declared order.
C14_StagesInDeclaredOrder ==
  /\ Len(emitted) <= total_steps
  /\ \A k \in 1 .. Len(emitted) :
       /\ emitted[k].stage = steps[k]
       /\ emitted[k].step = k
       /\ emitted[k].stage = "done" => k = Len(emitted)
  /\ d_pc = "raised" => Len(emitted) < total_steps
  /\ d_pc = "finished" => Len(emitted) = total_steps

\* C14 witness: a run that raised in its last part, after seven snapshots.
C14_Witness ==
  /\ d_pc = "raised"
  /\ Len(emitted) = total_steps - 1

\* C15: an explicit style index outside 0 .. count-1 (the count itself
\* included) makes the generation raise with the index and the count in the
\* message, before any click and before 'style_selected'; the consumer
\* records a failure; an index inside the range is clicked.
C15_StyleIndexChecked ==
  (style_id.kind = "num" /\ styles_count >= 1) =>
    IF style_id.val < 0 \/ style_id.val >= styles_count
    THEN /\ d_pc = "raised"
         /\ d_error = [msg |-> "style_id index out of range",
                       index |-> style_id.val, count |-> styles_count]
         /\ clicked = -1
         /\ \A k \in 1 .. Len(emitted) : emitted[k].stage # "style_selected"
         /\ d_record.status = "failed"
    ELSE /\ clicked = style_id.val
         /\ d_error.msg # "style_id index out of range"
         /\ Len(emitted) >= 3 /\ emitted[3].stage = "style_selected"

\* C15 witness: the requested index equals the number of styles.
C15_Witness ==
  /\ style_id.kind = "num"
  /\ styles_count >= 1
  /\ style_id.val = styles_count
  /\ d_pc = "raised"
  /\ d_error.index = styles_count /\ d_error.count = styles_count

\* Python's round(n / d) for exact n / d: round half to even.
PyRound(n, d) ==
  LET q == n \div d
      r == n % d
  IN IF 2 * r < d THEN q
     ELSE IF 2 * r > d THEN q + 1
     ELSE IF q % 2 = 0 THEN q ELSE q + 1

\* C19 as stated: every snapshot's percent is round(step / total_steps x 100).
C19_PercentIsRound ==
  \A k \in 1 .. Len(emitted) :
    emitted[k].percent = PyRound(emitted[k].step * 100, emitted[k].total_steps)

\* C19 amended: every snapshot of the 8 declared stages has step k, total 8
\* and percent the integer part of step / total_steps x 100.
C19_PercentIsTruncated ==
  \A k \in 1 .. Len(emitted) :
    /\ emitted[k].step = k
    /\ emitted[k].total_steps = Len(yields)
    /\ emitted[k].percent * emitted[k].total_steps <= emitted[k].step * 100
    /\ emitted[k].step * 100 < (emitted[k].percent + 1) * emitted[k].total_steps

\* C19 witness: the third snapshot, where truncation and rounding differ.
C19_Witness ==
  /\ Len(emitted) >= 3
  /\ emitted[3].percent = 37
  /\ PyRound(emitted[3].step * 100, emitted[3].total_steps) = 38

----------------------------------------------------------------------------
\* Further properties of the batch.

InitSteps == {"start", "launch", "new_page"}

\* C16: whichever initialisation step raised (runtime start, browser launch,
\* page opening), the clean-up that follows does not itself raise and leaves
\* no browser or page open.
C16_CleanupAfterPartialInit ==
  \A j \in Jobs :
    (/\ pc[j] = "done"
     /\ mainPc # "err"
     /\ FaultsOf(j) # {}
     /\ FaultsOf(j) \subseteq InitSteps)
      => (/\ ~Escaped(j)
          /\ source[j].browser # "open"
          /\ source[j].page # "open")

\* C17: main is through with the batch only when every task has reached its
\* end (stated for the batches in which MongoStorage() could be constructed
\* for every task).
C17_MainReturnsAfterAllTasks ==
  (\A f \in faults : f[2] # "db") =>
    (mainPc # "gather" => \A j \in Jobs : pc[j] = "done")

OnlyDriverFaults == \A f \in faults : f[2] \in {"authenticate", "generate"}

\* The entries of task k in the per-task state.
TaskState(k) ==
  <<pc[k], exc[k], source[k], apw[k], step[k], file_paths[k], record[k], calls[k]>>

\* What holds of a task whose authenticate raised.
AuthFailed(j) ==
  /\ step[j] = 0
  /\ file_paths[j] = <<>>
  /\ pc[j] \notin {"auth", "gen"}
  /\ calls[j] = {"save_error"}
  /\ record[j].status = "failed"
  /\ pc[j] = "done" =>
       /\ Returned(j)
       /\ source[j].page = "None"
       /\ source[j].browser = "closed"
       /\ ~source[j].is_init
       /\ apw[j] = "stopped"

\* The step in which authenticate of task j raises leaves authenticate and
\* changes nothing of any other task; authenticate is entered only once,
\* from init_async.
AuthStep ==
  \A j \in Jobs :
    /\ (<<j, "authenticate">> \notin faults /\ <<j, "authenticate">> \in faults') =>
         /\ pc[j] = "auth" /\ pc'[j] # "auth"
         /\ \A k \in Jobs \ {j} : TaskState(k)' = TaskState(k)
         /\ mainPc' = mainPc
    /\ (pc[j] # "auth" /\ pc'[j] = "auth") => pc[j] = "newpage"

\* C18: authentication is attempted once per task; when it raises, no
\* snapshot is consumed, the task is recorded as failed, its driver is
\* disposed and its unit released, and no other task's state changes
\* (for the batches whose only raising steps are authenticate or generate).
C18_AuthFailureIsFinal ==
  /\ [](OnlyDriverFaults =>
          /\ \A j \in Jobs : "authenticate" \in FaultsOf(j) => AuthFailed(j)
          /\ (\A j \in Jobs : pc[j] = "done") => semaphore = MAX_CONCURRENCY)
  /\ [][AuthStep]_vars

\* C18 witness: a task whose authenticate raised has returned with its
\* driver disposed while another task is still generating.
C18_Witness ==
  \E j \in Jobs : \E k \in Jobs :
    /\ FaultsOf(j) = {"authenticate"}
    /\ Returned(j)
    /\ source[j].browser = "closed"
    /\ record[j].status = "failed"
    /\ pc[k] = "gen" /\ step[k] > 0

\* The artifacts of a list.
Range(f) == {f[i] : i \in 1 .. Len(f)}

\* The lists of the eight snapshots, and every artifact that is in one.
SnapshotFiles == [k \in 1 .. total_steps |-> Snapshot(k).files]
SnapshotArtifacts == UNION {Range(SnapshotFiles[k]) : k \in 1 .. total_steps}

\* C20: once 'done' was consumed and save_result invoked, file_paths holds,
\* in order, every artifact of every snapshot of the task and nothing else,
\* and that list is the one recorded and returned.
C20_SuccessCarriesAllFiles ==
  \A j \in Jobs :
    (step[j] = total_steps /\ "save_result" \in calls[j]) =>
      /\ \A k \in 1 .. total_steps : IsPrefix(SnapshotFiles[k], file_paths[j])
      /\ Range(file_paths[j]) = SnapshotArtifacts
      /\ Cardinality(SnapshotArtifacts) = Len(file_paths[j])
      /\ record[j].status = "completed" => record[j].files = file_paths[j]
      /\ Returned(j) => results = <<>> \/ results[j].file_names = file_paths[j]

\* C20 witness: a task that consumed 'done' is recorded with its 11 artifacts.
C20_Witness ==
  \E j \in Jobs :
    /\ step[j] = total_steps
    /\ Returned(j)
    /\ record[j].status = "completed"
    /\ Len(record[j].files) = 11
    /\ mainPc = "ok"

----------------------------------------------------------------------------
\* One SokraticSource used through any sequence of calls of init_async,
\* dispose_async, authenticate and generate_presentation, one call after
\* the other; every await on the browser either returns or raises.

check_init_skipped(src) == TRUE

\* _check_init: `if not self.is_init: raise Exception(...)` passes.
check_init(src) == src.is_init

NotInitialized ==
  [msg |-> "Browser is not initialized. Call 'init_async' first.",
   index |-> -1, count |-> -1]

\* `assert self.page is not None` of _get_page failed.
AssertionError == [msg |-> "AssertionError", index |-> -1, count |-> -1]

\* No call is running on the driver.
AtRest == d_pc \in {"idle", "returned", "raised", "finished"}

InitLifecycle ==
  /\ njobs = 0
  /\ MAX_CONCURRENCY = 1
  /\ semaphore = 1
  /\ pc = <<>>
  /\ exc = <<>>
  /\ source = <<>>
  /\ apw = <<>>
  /\ step = <<>>
  /\ file_paths = <<>>
  /\ record = <<>>
  /\ calls = <<>>
  /\ faults = {}
  /\ completed = <<>>
  /\ mainPc = "gather"
  /\ results = <<>>
  /\ d_pc = "idle"
  /\ d_source = NewSource
  /\ style_id \in StyleIds
  /\ styles_count = -1
  /\ clicked = -1
  /\ heap = <<>>
  /\ emitted = <<>>
  /\ handed = <<>>
  /\ d_error = NoError
  /\ d_file_paths = <<>>
  /\ d_record = PendingRecord
  /\ method = "none"
  /\ ncalls = 0
  /\ browsers = <<>>
  /\ pages = <<>>
  /\ touched = FALSE

\* A method of the driver is called by a caller that catches what it raises.
Call(m) ==
  /\ AtRest
  /\ ncalls < MaxCalls
  /\ method' = m
  /\ ncalls' = ncalls + 1
  /\ touched' = FALSE

\* The call ran to its end without raising.
Return ==
  /\ d_pc' = "returned"
  /\ UNCHANGED <<d_error, d_record>>

\* init_async up to its first await: `if not self.is_init:`.
init_async ==
  /\ Call("init_async")
  /\ IF d_source.is_init THEN Return
     ELSE d_pc' = "launch" /\ UNCHANGED <<d_error, d_record>>
  /\ UNCHANGED <<bvars, d_source, style_id, styles_count, clicked, heap, emitted,
                 handed, d_file_paths, browsers, pages>>

\* self.browser = await self.chrome.launch(...); self.is_init = True
init_async_launch ==
  /\ d_pc = "launch"
  /\ \/ /\ d_source' = [d_source EXCEPT !.browser = "open", !.is_init = TRUE]
        /\ browsers' = Append(browsers, 0)
        /\ d_pc' = "newpage"
        /\ UNCHANGED <<d_error, d_record>>
     \/ /\ DRaise(External)
        /\ UNCHANGED <<d_source, browsers>>
  /\ UNCHANGED <<bvars, style_id, styles_count, clicked, heap, emitted, handed,
                 d_file_paths, method, ncalls, pages, touched>>

\* self.page = await self.browser.new_page(...)
init_async_new_page ==
  /\ d_pc = "newpage"
  /\ \/ /\ d_source' = [d_source EXCEPT !.page = "open"]
        /\ pages' = Append(pages, 0)
        /\ Return
     \/ /\ DRaise(External)
        /\ UNCHANGED <<d_source, pages>>
  /\ UNCHANGED <<bvars, style_id, styles_count, clicked, heap, emitted, handed,
                 d_file_paths, method, ncalls, browsers, touched>>

\* Where dispose_async awaits next: `if self.page:` / `if self.browser:`.
dispose_pc(src) ==
  IF src.page # "None" THEN "dpage"
  ELSE IF src.browser # "None" THEN "dbrowser"
  ELSE "returned"

\* dispose_async up to its first await.
dispose_async ==
  /\ Call("dispose_async")
  /\ d_pc' = dispose_pc(d_source)
  /\ UNCHANGED <<bvars, d_source, style_id, styles_count, clicked, heap, emitted,
                 handed, d_error, d_file_paths, d_record, browsers, pages>>

\* await self.page.close(); self.page = None
dispose_async_close_page ==
  /\ d_pc = "dpage"
  /\ \/ /\ pages' = [pages EXCEPT ![Len(pages)] = @ + 1]
        /\ d_source' = [d_source EXCEPT !.page = "None"]
        /\ d_pc' = dispose_pc(d_source')
        /\ UNCHANGED <<d_error, d_record>>
     \/ /\ DRaise(External)
        /\ UNCHANGED <<d_source, pages>>
  /\ UNCHANGED <<bvars, style_id, styles_count, clicked, heap, emitted, handed,
                 d_file_paths, method, ncalls, browsers, touched>>

\* await self.browser.close(); self.is_init = False.  self.browser keeps
\* referring to the Browser object.
dispose_async_close_browser ==
  /\ d_pc = "dbrowser"
  /\ \/ /\ browsers' = [browsers EXCEPT ![Len(browsers)] = @ + 1]
        /\ d_source' = [d_source EXCEPT !.browser = "closed", !.is_init = FALSE]
        /\ Return
     \/ /\ DRaise(External)
        /\ UNCHANGED <<d_source, browsers>>
  /\ UNCHANGED <<bvars, style_id, styles_count, clicked, heap, emitted, handed,
                 d_file_paths, method, ncalls, pages, touched>>

\* What _check_init and then _get_page raise, NoError when they pass.
get_page(src) ==
  IF ~check_init(src) THEN NotInitialized
  ELSE IF src.page = "None" THEN AssertionError
  ELSE NoError

\* authenticate up to its first await: self._check_init(); self._get_page().
authenticate ==
  /\ Call("authenticate")
  /\ IF get_page(d_source) # NoError THEN DRaise(get_page(d_source))
     ELSE d_pc' = "auth" /\ UNCHANGED <<d_error, d_record>>
  /\ UNCHANGED <<bvars, d_source, style_id, styles_count, clicked, heap, emitted,
                 handed, d_file_paths, browsers, pages>>

\* The awaits of authenticate: page.goto, the form, page.wait_for_url.
authenticate_page ==
  /\ d_pc = "auth"
  /\ touched' = TRUE
  /\ \/ Return
     \/ DRaise(External)
  /\ UNCHANGED <<bvars, d_source, style_id, styles_count, clicked, heap, emitted,
                 handed, d_file_paths, lvars>>

\* generate_presentation is called and its first item requested: the body
\* runs self._check_init() and self._get_page() before `files = []`.
generate_presentation ==
  /\ Call("generate_presentation")
  /\ IF get_page(d_source) # NoError THEN DRaise(get_page(d_source))
     ELSE d_pc' = "gen" /\ UNCHANGED <<d_error, d_record>>
  /\ styles_count' = -1
  /\ clicked' = -1
  /\ heap' = <<>>
  /\ emitted' = <<>>
  /\ handed' = <<>>
  /\ d_file_paths' = <<>>
  /\ UNCHANGED <<bvars, d_source, style_id, browsers, pages>>

NextLifecycle ==
  \/ init_async
  \/ init_async_launch
  \/ init_async_new_page
  \/ dispose_async
  \/ dispose_async_close_page
  \/ dispose_async_close_browser
  \/ authenticate
  \/ authenticate_page
  \/ generate_presentation
  \/ DGenSegment
  \/ DGenStyle
  \/ DGenExhaust

SpecLifecycle == InitLifecycle /\ [][NextLifecycle]_vars

----------------------------------------------------------------------------
\* Properties of the driver's lifecycle.

\* C21: between calls, is_init = true implies that browser and page are both
\* set; no call fails on the assertion of _get_page, and no init_async is
\* skipped while the page is missing.
C21_InitImpliesBrowserAndPage ==
  AtRest =>
    /\ d_source.is_init => (d_source.browser # "None" /\ d_source.page # "None")
    /\ d_error # AssertionError
    /\ (method = "init_async" /\ d_pc = "returned") => d_source.page # "None"

\* C22: once a dispose_async call has returned, the driver has is_init =
\* false and holds neither a page nor a browser; a dispose_async called on
\* a disposed driver awaits nothing; no Browser and no Page is closed more
\* than once.
C22_DisposeIdempotent ==
  /\ (method = "dispose_async" /\ d_pc = "returned") =>
       /\ ~d_source.is_init
       /\ d_source.page = "None"
       /\ d_source.browser = "None"
  /\ (method = "dispose_async" /\ ~d_source.is_init) =>
       d_pc \notin {"dpage", "dbrowser"}
  /\ \A i \in 1 .. Len(browsers) : browsers[i] <= 1
  /\ \A i \in 1 .. Len(pages) : pages[i] <= 1

\* A step that calls authenticate or generate_presentation on a driver whose
\* is_init is false.
UninitialisedCall ==
  (/\ AtRest
   /\ ~d_source.is_init
   /\ ncalls' = ncalls + 1
   /\ method' \in {"authenticate", "generate_presentation"}) =>
    /\ d_pc' = "raised"
    /\ d_error' = NotInitialized
    /\ ~touched'
    /\ method' = "generate_presentation" => emitted' = <<>>
    /\ UNCHANGED <<d_source, browsers, pages>>

\* C23: a driver on which no init_async has launched a browser yet, and a
\* driver whose dispose_async returned, is not initialised; authenticate and
\* generate_presentation called on a driver that is not initialised raise
\* the 'Browser is not initialized' error at once, without using the page,
\* and the generation yields no snapshot.
C23_UninitialisedCallFails ==
  /\ [](/\ browsers = <<>> => ~d_source.is_init
        /\ (method = "dispose_async" /\ d_pc = "returned") => ~d_source.is_init
        /\ (d_pc = "raised" /\ d_error = NotInitialized) =>
             /\ method \in {"authenticate", "generate_presentation"}
             /\ ~touched
             /\ method = "generate_presentation" => emitted = <<>>)
  /\ [][UninitialisedCall]_vars

\* C23 witness: generate_presentation called after init_async and
\* dispose_async raised the 'not initialized' error.
C23_Witness ==
  /\ method = "generate_presentation"
  /\ d_pc = "raised"
  /\ d_error = NotInitialized
  /\ Len(browsers) = 1
  /\ browsers[1] = 1
  /\ Len(pages) = 1
  /\ pages[1] = 1
  /\ emitted = <<>>

\* Some snapshot emitted so far carries the stage 'style_selected'.
StyleSelected == \E k \in 1 .. Len(emitted) : emitted[k].stage = "style_selected"

\* C24: when 'style_selected' has been emitted, the index that was clicked
\* lies in 0 .. styles_count-1, for an explicit style_id and for a random
\* one; no click happens outside that range; with zero styles the generation
\* raises 'No styles found', nothing is clicked and 'style_selected' is
\* never emitted.
C24_SelectedStyleInRange ==
  /\ StyleSelected =>
       /\ styles_count >= 1
       /\ clicked \in 0 .. styles_count - 1
       /\ style_id.kind = "num" => clicked = style_id.val
       /\ style_id.kind # "text"
  /\ clicked # -1 => clicked \in 0 .. styles_count - 1
  /\ styles_count = 0 =>
       /\ d_pc = "raised"
       /\ d_error.msg = "No styles found in design gallery"
       /\ clicked = -1
       /\ ~StyleSelected

\* C24 witness: style_id omitted, the last style of the gallery was picked
\* and 'style_selected' was emitted.
C24_Witness ==
  /\ style_id.kind = "none"
  /\ styles_count = MaxStyles
  /\ clicked = styles_count - 1
  /\ StyleSelected

====
